---- MODULE Spec2Model ----
(***************************************************************************)
(* Model of oweb.py, a command-line client of the Open WebUI HTTP API.     *)
(* One run of the process: module import (environment, API key, HEADERS),  *)
(* argument parsing, dispatch to one of five operations, the HTTP requests *)
(* it issues and the server's (or the transport's) answer to each.         *)
(*                                                                         *)
(* Strings the code inspects character by character (file names, chat      *)
(* content) are sequences of one-character strings.  An optional Python    *)
(* value (None or a value) is a sequence of length 0 or 1.  JSON values    *)
(* are tagged records: [t |-> "obj", v |-> function], [t |-> "arr",        *)
(* v |-> sequence], [t |-> "str", v |-> string], [t |-> "null"].           *)
(***************************************************************************)
EXTENDS Integers, Sequences, FiniteSets, TLC

\* ------------------------------------------------------------------ bounds
MaxFiles == 2   \* files in the directory tree given to load-dir
MaxDepth == 1   \* nesting depth of the tree (0 = the directory itself)
MaxDocs  == 2   \* documents in a knowledge-listing response
MaxIds   == 2   \* identifiers after --knowledge

\* --------------------------------------------------------- Python helpers
None == <<>>
Some(x) == <<x>>

\* str.lower() on one character (the alphabet of the modelled names)
LowerChar(c) ==
  CASE c = "A" -> "a"
    [] c = "B" -> "b"
    [] c = "D" -> "d"
    [] c = "M" -> "m"
    [] c = "X" -> "x"
    [] OTHER -> c

\* str.lower()
lower(s) == [i \in 1..Len(s) |-> LowerChar(s[i])]

\* str.endswith(suffix)
endswith(s, suffix) ==
  /\ Len(s) >= Len(suffix)
  /\ SubSeq(s, Len(s) - Len(suffix) + 1, Len(s)) = suffix

\* the filter of load_directory: file.lower().endswith('.md')
IsMd(file) == endswith(lower(file), <<".", "m", "d">>)

\* str.replace(old, new), leftmost non-overlapping occurrences
RECURSIVE replace(_, _, _)
replace(s, old, new) ==
  IF Len(s) < Len(old) THEN s
  ELSE IF SubSeq(s, 1, Len(old)) = old
       THEN new \o replace(SubSeq(s, Len(old) + 1, Len(s)), old, new)
       ELSE <<s[1]>> \o replace(Tail(s), old, new)

\* bool(x) of an optional list: None and [] are falsy
Truthy(opt) == opt # None /\ opt[1] # <<>>
IsNotNone(opt) == opt # None

\* --------------------------------------------------------------- JSON
Null == [t |-> "null"]
Str(s) == [t |-> "str", v |-> s]
Arr(s) == [t |-> "arr", v |-> s]
Obj(f) == [t |-> "obj", v |-> f]
EmptyObj == Obj(<<>>)

\* dict.get(key, default) on a parsed JSON object
Get(d, key, default) == IF key \in DOMAIN d.v THEN d.v[key] ELSE default

\* a response body: json says whether response.json() can parse the text
NonJson == [json |-> FALSE, val |-> [t |-> "text"]]
Json(v) == [json |-> TRUE, val |-> v]

\* ---------------------------------------------------------- inputs
\* the values os.getenv("OPEN_WEBUI_API_KEY") can give: unset, empty, set
EnvKeys == {None, Some(""), Some("sk-1")}

BASE_URL == "http://localhost:3000/api"

FileNames ==
  { <<"a", ".", "m", "d">>,
    <<"B", ".", "M", "D">>,
    <<"x", ".", "M", "d">>,
    <<"a", "m", "d">>,
    <<"a", ".", "m", "d", "x">> }

\* a file of the tree: the depth of its directory and its name; the
\* joined path os.path.join(root, file) is this pair
Entries == [depth : 0..MaxDepth, name : FileNames]

Injective(s) == \A i, j \in 1..Len(s) : s[i] = s[j] => i = j

\* directory trees: the files in the order os.walk lists them per directory
Trees ==
  { t \in UNION { [1..n -> Entries] : n \in 0..MaxFiles } : Injective(t) }

KnowledgeIdSet == {"a", "b"}
IdLists == UNION { [1..n -> KnowledgeIdSet] : n \in 0..MaxIds }
\* args.knowledge: None when --knowledge is not given, else the list
KnowledgeArgs == {None} \cup { Some(l) : l \in IdLists }

Questions == {"q1", "q2"}
Models == {"m1"}

Statuses == {200, 201, 404}

NoArgs ==
  [command |-> "", file |-> [depth |-> 0, name |-> <<>>], isdir |-> FALSE,
   tree |-> <<>>, question |-> "", model |-> "", knowledge |-> None]

\* ------------------------------------------------ bodies the server sends
MetaFields ==
  { <<>>,
    "meta" :> Null,
    "meta" :> EmptyObj,
    "meta" :> Obj("collection_name" :> Str("c1")) }
Docs ==
  { Obj(("id" :> Str("f1")) @@ ("filename" :> Str("n1")) @@ m) :
      m \in MetaFields }
KnowledgeBodies ==
  {NonJson} \cup
  { Json(Arr(l)) : l \in UNION { [1..n -> Docs] : n \in 0..MaxDocs } }

ModelBodies ==
  { NonJson, Json(EmptyObj),
    Json(Obj("data" :> Arr(<<Obj("name" :> Str("m1")), EmptyObj>>))) }

Contents ==
  { <<"x">>, <<"x", "\\", "n", "y">>, <<"\\", "n", "\\", "n">> }
Choices ==
  { EmptyObj, Obj("message" :> EmptyObj) } \cup
  { Obj("message" :> Obj("content" :> Str(c))) : c \in Contents }
ChatBodies ==
  { NonJson, Json(EmptyObj) } \cup
  { Json(Obj("choices" :> Arr(<<c>>))) : c \in Choices }

UploadBodies == { NonJson, Json(Obj("id" :> Str("f1"))) }

\* ------------------------------------------------------------------ state
VARIABLES
  API_KEY,       \* os.getenv("OPEN_WEBUI_API_KEY"): None or Some(string)
  HEADERS,       \* the module-level header map, a function name -> value
  pc,            \* where the process is
  args,          \* the parsed arguments (with load-dir: the tree the path names)
  md_files,      \* load_directory's list of discovered paths
  idx,           \* how many elements of md_files the for loop has taken
  file_path,     \* upload_knowledge's parameter
  requests,      \* every HTTP request issued so far, in order
  inflight,      \* requests issued and not yet answered
  responses,     \* every HTTP response received so far, in order
  output,        \* the lines printed to standard output
  raised,        \* the exception that ended the process, or "none"
  upload_calls,  \* the paths upload_knowledge was called with, in order
  json_calls     \* how many times response.json() was called

vars ==
  <<API_KEY, HEADERS, pc, args, md_files, idx, file_path, requests, inflight,
    responses, output, raised, upload_calls, json_calls>>

Line(k, v) == [k |-> k, v |-> v]
Bearer(key) == <<"Bearer ", key>>
Url(path) == <<BASE_URL, path>>

\* line 15: `if not API_KEY`
KeyMissingOnlyUnset(key) == key = None
KeyMissing(key) == key = None \/ key[1] = ""

\* lines 19-22
CommonHeaders(key) ==
  ("Authorization" :> Bearer(key)) @@ ("Content-Type" :> <<"application/json">>)

\* line 29: headers={"Authorization": f"Bearer {API_KEY}"}
upload_headers_common(key, common) == common
upload_headers(key, common) == "Authorization" :> Bearer(key)

\* lines 26-29: the request upload_knowledge issues
UploadRequest(path) ==
  [method |-> "POST", url |-> Url("/v1/files/"),
   headers |-> upload_headers(API_KEY[1], HEADERS),
   body |-> [kind |-> "multipart", file |-> path]]

\* lines 30-35: what upload_knowledge does with the response
upload_report_parse(response) ==
  IF response.body.json
  THEN [out |-> <<Line("File uploaded successfully.", Null),
                  Line("json", response.body.val)>>,
        raised |-> "none", parsed |-> 1]
  ELSE [out |-> <<Line("File uploaded successfully.", Null)>>,
        raised |-> "JSONDecodeError", parsed |-> 1]
upload_report(response) ==
  IF response.status_code = 200
  THEN IF response.body.json
       THEN [out |-> <<Line("File uploaded successfully.", Null),
                       Line("json", response.body.val)>>,
             raised |-> "none", parsed |-> 1]
       ELSE [out |-> <<Line("File uploaded successfully.", Null)>>,
             raised |-> "JSONDecodeError", parsed |-> 1]
  ELSE [out |-> <<Line("Failed to upload file", response.status_code),
                  Line("text", response.body)>>,
        raised |-> "none", parsed |-> 0]

\* lines 44-49: the loop over the documents; the collection is computed
\* before the document's lines are printed
RECURSIVE list_docs(_)
list_docs(data) ==
  IF Len(data) = 0 THEN [out |-> <<>>, raised |-> "none"]
  ELSE LET doc == Head(data)
           meta == Get(doc, "meta", EmptyObj)
       IN IF meta.t # "obj"
          THEN [out |-> <<>>, raised |-> "AttributeError"]
          ELSE LET collection == Get(meta, "collection_name", Str("N/A"))
                   rest == list_docs(Tail(data))
               IN [out |-> <<Line("- ID", Get(doc, "id", Null)),
                             Line("Filename", Get(doc, "filename", Null)),
                             Line("Collection", collection),
                             Line("", Null)>> \o rest.out,
                   raised |-> rest.raised]

\* lines 41-52
list_knowledge_report(response) ==
  IF response.status_code = 200
  THEN IF response.body.json
       THEN LET r == list_docs(response.body.val.v)
            IN [out |-> <<Line("Knowledge documents:", Null)>> \o r.out,
                raised |-> r.raised, parsed |-> 1]
       ELSE [out |-> <<>>, raised |-> "JSONDecodeError", parsed |-> 1]
  ELSE [out |-> <<Line("Failed to retrieve knowledge documents",
                       response.status_code),
                  Line("text", response.body)>>,
        raised |-> "none", parsed |-> 0]

\* lines 61-62
RECURSIVE list_names(_)
list_names(data) ==
  IF Len(data) = 0 THEN <<>>
  ELSE <<Line("-", Get(Head(data), "name", Null))>> \o list_names(Tail(data))

\* lines 58-65
list_models_report(response) ==
  IF response.status_code = 200
  THEN IF response.body.json
       THEN [out |-> <<Line("Available models:", Null)>> \o
                     list_names(Get(response.body.val, "data", Arr(<<>>)).v),
             raised |-> "none", parsed |-> 1]
       ELSE [out |-> <<>>, raised |-> "JSONDecodeError", parsed |-> 1]
  ELSE [out |-> <<Line("Failed to retrieve models", response.status_code),
                  Line("text", response.body)>>,
        raised |-> "none", parsed |-> 0]

\* lines 70-75: the payload of ask_question
ask_payload_always(question, model, knowledge_ids) ==
  ("model" :> Str(model)) @@
  ("messages" :> Arr(<<Obj(("role" :> Str("user")) @@
                           ("content" :> Str(question)))>>)) @@
  ("knowledge_ids" :>
     Arr(IF Truthy(knowledge_ids) THEN knowledge_ids[1] ELSE <<>>))
ask_payload_if_given(question, model, knowledge_ids) ==
  ("model" :> Str(model)) @@
  ("messages" :> Arr(<<Obj(("role" :> Str("user")) @@
                           ("content" :> Str(question)))>>)) @@
  (IF IsNotNone(knowledge_ids)
   THEN "knowledge_ids" :> Arr(knowledge_ids[1]) ELSE <<>>)
ask_payload(question, model, knowledge_ids) ==
  ("model" :> Str(model)) @@
  ("messages" :> Arr(<<Obj(("role" :> Str("user")) @@
                           ("content" :> Str(question)))>>)) @@
  (IF Truthy(knowledge_ids)
   THEN "knowledge_ids" :> Arr(knowledge_ids[1]) ELSE <<>>)

\* lines 80-85
RECURSIVE list_choices(_)
list_choices(choices) ==
  IF Len(choices) = 0 THEN <<>>
  ELSE LET message == Get(Head(choices), "message", EmptyObj)
           content == Get(message, "content", Str(<<>>))
           formatted_content == replace(content.v, <<"\\", "n">>, <<"\n">>)
       IN <<Line("content", formatted_content), Line("", Null)>> \o
          list_choices(Tail(choices))

\* lines 77-88
ask_report(response) ==
  IF response.status_code = 200
  THEN IF response.body.json
       THEN [out |-> <<Line("Response:", Null)>> \o
                     list_choices(Get(response.body.val, "choices", Arr(<<>>)).v),
             raised |-> "none", parsed |-> 1]
       ELSE [out |-> <<>>, raised |-> "JSONDecodeError", parsed |-> 1]
  ELSE [out |-> <<Line("Failed to get response", response.status_code),
                  Line("text", response.body)>>,
        raised |-> "none", parsed |-> 0]

\* lines 96-100: os.walk is top-down, so the files of a directory come
\* before those of the directories below it, each directory in listing order
RECURSIVE walk(_, _)
walk(tree, depth) ==
  IF depth > MaxDepth THEN <<>>
  ELSE SelectSeq(tree, LAMBDA f : f.depth = depth /\ IsMd(f.name)) \o
       walk(tree, depth + 1)

\* line 108: the element the for loop hands to the body
LoopFileFirst(files, i) == files[1]
LoopFile(files, i) == files[i]

\* ------------------------------------------------------------ the process
\* the state once line 14 has read the environment
Init ==
  /\ API_KEY \in EnvKeys
  /\ HEADERS = <<>>
  /\ pc = "import"
  /\ args = NoArgs
  /\ md_files = <<>>
  /\ idx = 0
  /\ file_path = NoArgs.file
  /\ requests = <<>>
  /\ inflight = 0
  /\ responses = <<>>
  /\ output = <<>>
  /\ raised = "none"
  /\ upload_calls = <<>>
  /\ json_calls = 0

\* lines 15-22: the key check and the header map, at import
Import ==
  /\ pc = "import"
  /\ IF KeyMissing(API_KEY)
     THEN /\ raised' = "ValueError"
          /\ pc' = "crashed"
          /\ UNCHANGED HEADERS
     ELSE /\ HEADERS' = CommonHeaders(API_KEY[1])
          /\ pc' = "main"
          /\ UNCHANGED raised
  /\ UNCHANGED <<API_KEY, args, md_files, idx, file_path, requests, inflight,
                 responses, output, upload_calls, json_calls>>

UploadArgs ==
  { [NoArgs EXCEPT !.command = "upload", !.file = [depth |-> 0, name |-> n]] :
      n \in FileNames }
LoadDirArgs ==
  { [NoArgs EXCEPT !.command = "load-dir"] } \cup
  { [NoArgs EXCEPT !.command = "load-dir", !.isdir = TRUE, !.tree = t] :
      t \in Trees }
ListKnowledgeArgs == { [NoArgs EXCEPT !.command = "list-knowledge"] }
ListModelsArgs == { [NoArgs EXCEPT !.command = "list-models"] }
AskArgs ==
  { [NoArgs EXCEPT !.command = "ask", !.question = q, !.model = m,
                   !.knowledge = k] :
      q \in Questions, m \in Models, k \in KnowledgeArgs }

\* lines 138-147: the function main dispatches to
Dispatch(command) ==
  CASE command = "upload" -> "upload_knowledge"
    [] command = "load-dir" -> "load_directory"
    [] command = "list-knowledge" -> "list_knowledge"
    [] command = "list-models" -> "list_models"
    [] command = "ask" -> "ask_question"

\* lines 113-147: parse_args succeeds and main calls the operation
ParseArgs ==
  /\ pc = "main"
  /\ \E a \in UploadArgs \cup LoadDirArgs \cup ListKnowledgeArgs \cup
              ListModelsArgs \cup AskArgs :
       /\ args' = a
       /\ pc' = Dispatch(a.command)
       /\ file_path' = a.file
  /\ UNCHANGED <<API_KEY, HEADERS, md_files, idx, requests, inflight,
                 responses, output, raised, upload_calls, json_calls>>

\* line 136: parse_args rejects the command line (usage text, exit status 2)
ParseError ==
  /\ pc = "main"
  /\ raised' = "SystemExit"
  /\ pc' = "exited"
  /\ output' = Append(output, Line("usage", Null))
  /\ UNCHANGED <<API_KEY, HEADERS, args, md_files, idx, file_path, requests,
                 inflight, responses, upload_calls, json_calls>>

\* line 27: open(file_path, "rb") raises (missing or unreadable file)
UploadOpenFails ==
  /\ pc = "upload_knowledge"
  /\ upload_calls' = Append(upload_calls, file_path)
  /\ raised' = "FileNotFoundError"
  /\ pc' = "crashed"
  /\ UNCHANGED <<API_KEY, HEADERS, args, md_files, idx, file_path, requests,
                 inflight, responses, output, json_calls>>

\* lines 26-29: the file opens and the POST is sent
UploadPost ==
  /\ pc = "upload_knowledge"
  /\ upload_calls' = Append(upload_calls, file_path)
  /\ requests' = Append(requests, UploadRequest(file_path))
  /\ inflight' = inflight + 1
  /\ pc' = "upload_wait"
  /\ UNCHANGED <<API_KEY, HEADERS, args, md_files, idx, file_path, responses,
                 output, raised, json_calls>>

\* the response arrives and the operation runs to its end: `report` is what
\* the operation does with it, `return_to` where a normal return leads
Receive(response, report, return_to) ==
  /\ inflight' = inflight - 1
  /\ responses' = Append(responses, response)
  /\ output' = output \o report.out
  /\ json_calls' = json_calls + report.parsed
  /\ raised' = report.raised
  /\ pc' = IF report.raised = "none" THEN return_to ELSE "crashed"
  /\ UNCHANGED <<API_KEY, HEADERS, args, md_files, idx, file_path, requests,
                 upload_calls>>

\* lines 30-35, and the return to main or to the loop of load_directory
UploadResponse ==
  /\ pc = "upload_wait"
  /\ \E s \in Statuses, b \in UploadBodies :
       LET response == [status_code |-> s, body |-> b]
       IN Receive(response, upload_report(response),
                  IF args.command = "load-dir" THEN "load_loop" ELSE "done")

\* lines 92-106
LoadDirectory ==
  /\ pc = "load_directory"
  /\ IF ~args.isdir
     THEN /\ output' = Append(output, Line("Error: not a valid directory", Null))
          /\ pc' = "done"
          /\ UNCHANGED md_files
     ELSE /\ md_files' = walk(args.tree, 0)
          /\ IF Len(md_files') = 0
             THEN /\ output' = Append(output, Line("No .md files found", Null))
                  /\ pc' = "done"
             ELSE /\ output' = Append(output, Line("Found", Len(md_files')))
                  /\ pc' = "load_loop"
  /\ idx' = 0
  /\ UNCHANGED <<API_KEY, HEADERS, args, file_path, requests, inflight,
                 responses, raised, upload_calls, json_calls>>

\* lines 108-110: the next iteration prints the path and calls upload_knowledge
LoadDirectoryNext ==
  /\ pc = "load_loop"
  /\ idx < Len(md_files)
  /\ idx' = idx + 1
  /\ file_path' = LoopFile(md_files, idx')
  /\ output' = Append(output, Line("Uploading", file_path'))
  /\ pc' = "upload_knowledge"
  /\ UNCHANGED <<API_KEY, HEADERS, args, md_files, requests, inflight,
                 responses, raised, upload_calls, json_calls>>

\* line 108: the list is exhausted, load_directory returns
LoadDirectoryReturn ==
  /\ pc = "load_loop"
  /\ idx >= Len(md_files)
  /\ pc' = "done"
  /\ UNCHANGED <<API_KEY, HEADERS, args, md_files, idx, file_path, requests,
                 inflight, responses, output, raised, upload_calls, json_calls>>

\* a request of the operations that send the shared header map
Send(request, wait) ==
  /\ requests' = Append(requests, request)
  /\ inflight' = inflight + 1
  /\ pc' = wait
  /\ UNCHANGED <<API_KEY, HEADERS, args, md_files, idx, file_path, responses,
                 output, raised, upload_calls, json_calls>>

\* lines 39-40
ListKnowledgeGet ==
  /\ pc = "list_knowledge"
  /\ Send([method |-> "GET", url |-> Url("/v1/files/"), headers |-> HEADERS,
           body |-> [kind |-> "none"]], "list_knowledge_wait")

\* lines 41-52
ListKnowledgeResponse ==
  /\ pc = "list_knowledge_wait"
  /\ \E s \in Statuses, b \in KnowledgeBodies :
       LET response == [status_code |-> s, body |-> b]
       IN Receive(response, list_knowledge_report(response), "done")

\* lines 56-57
ListModelsGet ==
  /\ pc = "list_models"
  /\ Send([method |-> "GET", url |-> Url("/models"), headers |-> HEADERS,
           body |-> [kind |-> "none"]], "list_models_wait")

\* lines 58-65
ListModelsResponse ==
  /\ pc = "list_models_wait"
  /\ \E s \in Statuses, b \in ModelBodies :
       LET response == [status_code |-> s, body |-> b]
       IN Receive(response, list_models_report(response), "done")

\* lines 69-76
AskPost ==
  /\ pc = "ask_question"
  /\ Send([method |-> "POST", url |-> Url("/chat/completions"),
           headers |-> HEADERS,
           body |-> [kind |-> "json",
                     json |-> Obj(ask_payload(args.question, args.model,
                                              args.knowledge))]],
          "ask_wait")

\* lines 77-88
AskResponse ==
  /\ pc = "ask_wait"
  /\ \E s \in Statuses, b \in ChatBodies :
       LET response == [status_code |-> s, body |-> b]
       IN Receive(response, ask_report(response), "done")

WaitStates ==
  {"upload_wait", "list_knowledge_wait", "list_models_wait", "ask_wait"}

\* lines 29, 40, 57, 76: requests.post / requests.get raises (connection
\* refused, DNS failure); no caller catches it
TransportFailure ==
  /\ pc \in WaitStates
  /\ inflight' = inflight - 1
  /\ raised' = "ConnectionError"
  /\ pc' = "crashed"
  /\ UNCHANGED <<API_KEY, HEADERS, args, md_files, idx, file_path, requests,
                 responses, output, upload_calls, json_calls>>

Next ==
  \/ Import
  \/ ParseArgs
  \/ ParseError
  \/ UploadOpenFails
  \/ UploadPost
  \/ UploadResponse
  \/ LoadDirectory
  \/ LoadDirectoryNext
  \/ LoadDirectoryReturn
  \/ ListKnowledgeGet
  \/ ListKnowledgeResponse
  \/ ListModelsGet
  \/ ListModelsResponse
  \/ AskPost
  \/ AskResponse
  \/ TransportFailure

Spec == Init /\ [][Next]_vars

\* ------------------------------------------------------------- properties
Last(s) == s[Len(s)]

\* a name that ends in ".md" whatever the case of its letters
EndsInMd(name) ==
  /\ Len(name) >= 3
  /\ name[Len(name) - 2] = "."
  /\ name[Len(name) - 1] \in {"m", "M"}
  /\ name[Len(name)] \in {"d", "D"}

MdEntries(tree) == { i \in 1..Len(tree) : EndsInMd(tree[i].name) }

\* the .md files of a tree in the order a top-down traversal meets them
RECURSIVE Discovered(_, _)
Discovered(tree, depth) ==
  IF depth > MaxDepth THEN <<>>
  ELSE SelectSeq(tree, LAMBDA f : f.depth = depth /\ EndsInMd(f.name)) \o
       Discovered(tree, depth + 1)

LoadDirRun == args.command = "load-dir" /\ args.isdir
Ended == pc \in {"done", "crashed"}
AskRequests == { i \in 1..Len(requests) : requests[i].body.kind = "json" }
Payload(i) == requests[i].body.json.v
NoIdentifiers == args.knowledge = None \/ args.knowledge = Some(<<>>)
KeyAbsentOrEmpty == API_KEY = None \/ API_KEY = Some("")

\* C1: for every directory tree holding N files whose name ends in ".md"
\* (any case, any depth), load_directory makes exactly N upload calls, one
\* for each such file and none twice, and none for a file whose name does
\* not end in ".md".  Runs ended by open() failing are left aside: a file
\* that cannot be read is a hard failure by design.
C1_ExactlyOneUploadPerMdFile ==
  (LoadDirRun /\ Ended /\ raised # "FileNotFoundError") =>
    /\ Len(upload_calls) = Cardinality(MdEntries(args.tree))
    /\ \A i \in MdEntries(args.tree) :
         Cardinality({ k \in 1..Len(upload_calls) :
                         upload_calls[k] = args.tree[i] }) = 1
    /\ \A k \in 1..Len(upload_calls) : EndsInMd(upload_calls[k].name)

\* C2: a response whose status code is not 200 never raises: the operation
\* prints the status code and then the raw body, parses nothing and returns
\* normally (to main, or to the loop of load_directory).
C2_NonOkResponseReported ==
  [][ (Len(responses') = Len(responses) + 1 /\
       Last(responses').status_code # 200) =>
        /\ raised' = "none"
        /\ pc' \in {"done", "load_loop"}
        /\ json_calls' = json_calls
        /\ Len(output') = Len(output) + 2
        /\ SubSeq(output', 1, Len(output)) = output
        /\ output'[Len(output) + 1].v = Last(responses').status_code
        /\ output'[Len(output) + 2].k = "text"
        /\ output'[Len(output) + 2].v = Last(responses').body ]_vars

C2_Witness ==
  /\ pc = "done"
  /\ args.command = "list-models"
  /\ Len(responses) = 1
  /\ responses[1].status_code = 404
  /\ raised = "none"

\* C3: with OPEN_WEBUI_API_KEY absent or empty the process fails at import
\* with ValueError: no argument is parsed, no operation is dispatched and no
\* HTTP request is ever issued.
C3_NoRequestWithoutKey ==
  KeyAbsentOrEmpty =>
    /\ pc \in {"import", "crashed"}
    /\ pc = "crashed" => raised = "ValueError"
    /\ args = NoArgs
    /\ requests = <<>>
    /\ inflight = 0

C3_Witness == API_KEY = Some("") /\ pc = "crashed" /\ raised = "ValueError"

\* C4: whatever the responses to the upload requests of a load_directory run
\* are, the run is not halted: the number of upload requests equals the
\* number of discovered files.  Only runs in which every file opens and
\* every request is answered are looked at.
C4_EveryDiscoveredFileRequested ==
  (LoadDirRun /\ Ended /\ raised \notin {"FileNotFoundError", "ConnectionError"})
    => Len(requests) = Len(md_files)

\* C5: the JSON body of ask holds model and a messages array of exactly one
\* user message carrying the question; it has no knowledge_ids key when ask
\* was called with no identifiers, and with a non-empty list of identifiers
\* its knowledge_ids is that list, same elements in the same order.
C5_AskPayload ==
  \A i \in AskRequests :
    /\ {"model", "messages"} \subseteq DOMAIN Payload(i)
    /\ DOMAIN Payload(i) \subseteq {"model", "messages", "knowledge_ids"}
    /\ Payload(i)["model"] = Str(args.model)
    /\ Payload(i)["messages"].t = "arr"
    /\ Len(Payload(i)["messages"].v) = 1
    /\ DOMAIN Payload(i)["messages"].v[1].v = {"role", "content"}
    /\ Payload(i)["messages"].v[1].v["role"] = Str("user")
    /\ Payload(i)["messages"].v[1].v["content"] = Str(args.question)
    /\ NoIdentifiers => "knowledge_ids" \notin DOMAIN Payload(i)
    /\ ~NoIdentifiers =>
         /\ "knowledge_ids" \in DOMAIN Payload(i)
         /\ Payload(i)["knowledge_ids"] = Arr(args.knowledge[1])

C5_Witness ==
  /\ args.command = "ask"
  /\ args.knowledge = Some(<<"b", "a">>)
  /\ Len(requests) = 1

\* C6 as stated: the body of ask holds an empty knowledge_ids list exactly
\* when the caller explicitly passed an empty list.
C6_EmptyListSentWhenExplicit ==
  \A i \in AskRequests :
    (args.knowledge = Some(<<>>)) <=>
      ( /\ "knowledge_ids" \in DOMAIN Payload(i)
        /\ Payload(i)["knowledge_ids"] = Arr(<<>>) )

\* C6 amended: ask never sends an empty knowledge_ids list; an explicitly
\* empty list leads to the key being omitted, as an option not given does.
C6_EmptyListNeverSent ==
  \A i \in AskRequests :
    /\ "knowledge_ids" \in DOMAIN Payload(i) =>
         Len(Payload(i)["knowledge_ids"].v) > 0
    /\ args.knowledge = Some(<<>>) => "knowledge_ids" \notin DOMAIN Payload(i)
    /\ args.knowledge = None => "knowledge_ids" \notin DOMAIN Payload(i)

C6_Witness ==
  /\ args.command = "ask"
  /\ args.knowledge = Some(<<>>)
  /\ Len(requests) = 1

\* the lines upload_knowledge prints first when it reports a response
UploadReports ==
  { i \in 1..Len(output) :
      output[i].k \in {"File uploaded successfully.", "Failed to upload file"} }

C8_TransportFailureCaught ==
  (Len(requests) > Len(responses) /\ inflight = 0) =>
    /\ raised = "none"
    /\ Len(output) > 0
    /\ Last(output).k = "failure"

\* C9: each call of upload with a file that opens issues exactly one request:
\* a POST to /v1/files/ with the file as multipart body and Authorization as
\* its only header; the shared header map is neither sent nor altered.
C9_UploadRequest ==
  args.command \in {"upload", "load-dir"} =>
    /\ Len(requests) =
         Len(upload_calls) - (IF raised = "FileNotFoundError" THEN 1 ELSE 0)
    /\ \A k \in 1..Len(requests) :
         /\ requests[k].method = "POST"
         /\ requests[k].url = <<BASE_URL, "/v1/files/">>
         /\ requests[k].body.kind = "multipart"
         /\ requests[k].body.file = upload_calls[k]
         /\ DOMAIN requests[k].headers = {"Authorization"}
         /\ requests[k].headers["Authorization"] = <<"Bearer ", API_KEY[1]>>
         /\ requests[k].headers # HEADERS
    /\ DOMAIN HEADERS = {"Authorization", "Content-Type"}
    /\ HEADERS["Authorization"] = <<"Bearer ", API_KEY[1]>>
    /\ HEADERS["Content-Type"] = <<"application/json">>

C9_Witness ==
  /\ args.command = "upload"
  /\ pc = "done"
  /\ Len(requests) = 1
  /\ Len(upload_calls) = 1

\* a listed document without meta.collection_name: no meta field, a meta
\* that is null, or a meta object without collection_name
LacksCollection(doc) ==
  \/ "meta" \notin DOMAIN doc.v
  \/ doc.v["meta"].t = "null"
  \/ doc.v["meta"].t = "obj" /\ "collection_name" \notin DOMAIN doc.v["meta"].v

\* C10: for a 200 knowledge listing, list_knowledge prints one entry (four
\* lines) per document, in order, and "N/A" as the collection of every entry
\* that lacks meta.collection_name, and goes on to the remaining entries.
C10_MissingCollectionPrintsNA ==
  ( /\ args.command = "list-knowledge"
    /\ Len(responses) = 1
    /\ responses[1].status_code = 200
    /\ responses[1].body.json ) =>
      LET data == responses[1].body.val.v
      IN /\ raised = "none"
         /\ Len(output) = 1 + 4 * Len(data)
         /\ \A i \in 1..Len(data) :
              /\ output[4 * i].k = "Collection"
              /\ LacksCollection(data[i]) => output[4 * i].v = Str("N/A")
====
